---- MODULE Spec2Model ----
(***************************************************************************)
(* Long-term repair reserve calculator (src/App.tsx).                      *)
(*                                                                         *)
(* The state is the React state of the App component.  Every state of the  *)
(* model is one committed render.  A handler that calls setInputs commits  *)
(* a render with the new inputs; the effect of App.tsx:32-35, which runs   *)
(* calculate(), is a step of its own that follows that commit and commits  *)
(* the new result.                                                         *)
(*                                                                         *)
(* Numbers: the fields of CalculationInputs are naturals here (InputGroup  *)
(* emits non-negative numbers, 0 when the field is blank); the derived     *)
(* results are exact rationals <<numerator, denominator>> in lowest terms, *)
(* the exact-arithmetic reading of the double arithmetic of calculate().   *)
(* Years are small naturals: the code treats a year as a plain number and  *)
(* only 0 (blank) is special.                                              *)
(***************************************************************************)
EXTENDS Integers, Sequences, FiniteSets, TLC

VARIABLES
    inputs,         \* App.tsx:9   CalculationInputs
    result,         \* App.tsx:22  CalculationResult | null
    aptName,        \* App.tsx:27
    isSearching,    \* App.tsx:28
    searchSources,  \* App.tsx:29
    searchMessage,  \* App.tsx:30
    effectPending,  \* the effect of App.tsx:32 is scheduled and has not run
    searchInFlight, \* calls of searchApartmentTotalArea awaited at App.tsx:97
    currentYear,    \* what new Date().getFullYear() returns
    periodView,     \* history: the period view edited last, "duration" or "range"
    advice,         \* App.tsx:23
    adviceStatus,   \* App.tsx:24
    adviceRequests  \* calls of getFinancialAdvice awaited at App.tsx:189

vars == <<inputs, result, aptName, isSearching, searchSources, searchMessage,
          effectPending, searchInFlight, currentYear, periodView,
          advice, adviceStatus, adviceRequests>>

----------------------------------------------------------------------------
(* Bounds of the model *)

MaxYear == 3
MaxValue == 1
MaxInFlight == 2

\* the years a user types into the start / end field (0 = blank)
YearInputs == 0..MaxYear
\* the months a user types into the duration field (0 = blank)
MonthInputs == {0, 5, 18, 24, 29, 65}
\* amounts typed into the cost fields, areas typed or looked up
ValueInputs == 0..MaxValue
\* percentages typed into the rate field
RateInputs == {0, 50}
\* the calendar years of a session
ClockYears == {2, 3}
\* the names typed into the search field, as sequences of characters
NameInputs == {<<" ">>, <<"a">>}
\* the citation lists a lookup returns
SourceLists == {<<>>, <<"web">>}
\* the areas a lookup returns
LookupAreas == {-1, 0, MaxValue}

\* a session that also uses the lookup types fewer distinct values
FewYears == {0, 1, MaxYear}
FewMonths == {0, 18}
FewValues == {0, MaxValue}

\* the values of the sessions that exercise the derivation
CalcAmounts == {0, 2, 4}
CalcRates == {0, 50, 150}
CalcAreas == {0, 2, 3}
CalcMonths == {0, 5, 60}

----------------------------------------------------------------------------
(* Exact rationals *)

RECURSIVE GCD(_, _)
GCD(a, b) == IF b = 0 THEN a ELSE GCD(b, a % b)

Rat(n, d) == LET g == GCD(n, d) IN <<n \div g, d \div g>>
RatMul(p, q) == Rat(p[1] * q[1], p[2] * q[2])
RatDiv(p, q) == Rat(p[1] * q[2], p[2] * q[1])

\* Math.round rounding a half down instead of up
MathRoundHalfDown(n, d) == (2 * n + d - 1) \div (2 * d)

\* Math.round on a non-negative quotient n/d: floor(n/d + 1/2)
MathRound(n, d) == (2 * n + d) \div (2 * d)
MathMax(a, b) == IF a >= b THEN a ELSE b

----------------------------------------------------------------------------
(* types.ts *)

CalculationMode == {"RATE", "AMOUNT"}
PeriodInputMode == {"DURATION", "RANGE"}
Null == [present |-> FALSE]

----------------------------------------------------------------------------
(* InputChangeUpdater clearing the fields of the other cost basis when the *)
(* mode is switched                                                        *)
InputChangeUpdaterClearing(prev, field, value) ==
    LET newInputs == [prev EXCEPT ![field] = value] IN
    IF field = "durationMonths"
    THEN LET durationInYears == MathMax(1, MathRound(value, 12)) IN
         IF newInputs.startYear # 0
         THEN [newInputs EXCEPT !.endYear = newInputs.startYear + durationInYears - 1]
         ELSE newInputs
    ELSE IF field = "mode" /\ value = "AMOUNT"
    THEN [newInputs EXCEPT !.totalRepairCost = 0, !.accumulationRate = 0]
    ELSE IF field = "mode"
    THEN [newInputs EXCEPT !.periodAmount = 0]
    ELSE newInputs

(* The updater of handleInputChange, App.tsx:38-53 *)

InputChangeUpdater(prev, field, value) ==
    LET newInputs == [prev EXCEPT ![field] = value] IN
    IF field = "durationMonths"
    THEN LET durationInYears == MathMax(1, MathRound(value, 12)) IN
         IF newInputs.startYear # 0
         THEN [newInputs EXCEPT !.endYear = newInputs.startYear + durationInYears - 1]
         ELSE newInputs
    ELSE newInputs

(* PeriodRangeUpdater without the pull of the other boundary (App.tsx:65-67, *)
(* App.tsx:71-73 left out)                                                   *)
PeriodRangeUpdaterNoPull(prev, type, year, now) ==
    LET start0 == IF prev.startYear # 0 THEN prev.startYear ELSE now
        end0   == IF prev.endYear # 0 THEN prev.endYear ELSE start0
        newStart == IF type = "start" THEN year ELSE start0
        newEnd   == IF type = "start" THEN end0 ELSE year
    IN [prev EXCEPT !.startYear = newStart,
                    !.endYear = newEnd,
                    !.durationMonths = (newEnd - newStart + 1) * 12]

(* PeriodRangeUpdater counting the years exclusively (App.tsx:80 without +1) *)
PeriodRangeUpdaterExclusive(prev, type, year, now) ==
    LET start0 == IF prev.startYear # 0 THEN prev.startYear ELSE now
        end0   == IF prev.endYear # 0 THEN prev.endYear ELSE start0
        newStart == IF type = "start"
                    THEN year
                    ELSE (IF year < start0 THEN year ELSE start0)
        newEnd   == IF type = "start"
                    THEN (IF year > end0 THEN year ELSE end0)
                    ELSE year
    IN [prev EXCEPT !.startYear = newStart,
                    !.endYear = newEnd,
                    !.durationMonths = (newEnd - newStart) * 12]

(* The updater of handlePeriodRangeChange, App.tsx:57-83; now is the value *)
(* of new Date().getFullYear() when the updater runs.                      *)
PeriodRangeUpdater(prev, type, year, now) ==
    LET start0 == IF prev.startYear # 0 THEN prev.startYear ELSE now
        end0   == IF prev.endYear # 0 THEN prev.endYear ELSE start0
        newStart == IF type = "start"
                    THEN year
                    ELSE (IF year < start0 THEN year ELSE start0)
        newEnd   == IF type = "start"
                    THEN (IF year > end0 THEN year ELSE end0)
                    ELSE year
    IN [prev EXCEPT !.startYear = newStart,
                    !.endYear = newEnd,
                    !.durationMonths = (newEnd - newStart + 1) * 12]

(* CommonInvalid without the check of householdArea *)
CommonInvalidNoHousehold(in) ==
    in.durationMonths <= 0 \/ in.totalComplexArea <= 0

(* calculate, App.tsx:139: the common validation fails *)
CommonInvalid(in) ==
    in.durationMonths <= 0 \/ in.totalComplexArea <= 0 \/ in.householdArea <= 0

(* calculate, App.tsx:146-157: the validation of the active mode fails *)
ModeInvalid(in) ==
    IF in.mode = "RATE"
    THEN in.totalRepairCost <= 0 \/ in.accumulationRate <= 0
    ELSE in.periodAmount <= 0

(* PeriodTargetAmount taking the rate as a fraction, not a percentage *)
PeriodTargetAmountNoPercent(in) ==
    IF in.mode = "RATE"
    THEN RatMul(Rat(in.totalRepairCost, 1), Rat(in.accumulationRate, 1))
    ELSE Rat(in.periodAmount, 1)

(* calculate, App.tsx:144-160: periodTargetAmount *)
PeriodTargetAmount(in) ==
    IF in.mode = "RATE"
    THEN RatMul(Rat(in.totalRepairCost, 1),
                RatDiv(Rat(in.accumulationRate, 1), Rat(100, 1)))
    ELSE Rat(in.periodAmount, 1)

(* calculate, App.tsx:135-181: the value handed to setResult *)
calculate(in) ==
    IF CommonInvalid(in) THEN Null
    ELSE IF ModeInvalid(in) THEN Null
    ELSE LET periodTargetAmount == PeriodTargetAmount(in)
             monthlyTotalTarget == RatDiv(periodTargetAmount, Rat(in.durationMonths, 1))
             monthlyRatePerSqm == RatDiv(monthlyTotalTarget, Rat(in.totalComplexArea, 1))
             householdMonthlyFee == RatMul(monthlyRatePerSqm, Rat(in.householdArea, 1))
         IN [present |-> TRUE,
             periodTargetAmount |-> periodTargetAmount,
             monthlyTotalTarget |-> monthlyTotalTarget,
             monthlyRatePerSqm |-> monthlyRatePerSqm,
             householdMonthlyFee |-> householdMonthlyFee]

----------------------------------------------------------------------------
(* Initial state, App.tsx:9-30: the first committed render *)

InitialInputs(now) ==
    [mode |-> "RATE",
     periodInputMode |-> "DURATION",
     periodAmount |-> 0,
     totalRepairCost |-> 0,
     accumulationRate |-> 0,
     durationMonths |-> 60,
     startYear |-> now,
     endYear |-> now + 4,
     totalComplexArea |-> 0,
     householdArea |-> 0]

Init ==
    /\ currentYear \in ClockYears
    /\ inputs = InitialInputs(currentYear)
    /\ result = Null
    /\ aptName = <<>>
    /\ isSearching = FALSE
    /\ searchSources = <<>>
    /\ searchMessage = ""
    /\ effectPending = TRUE
    /\ searchInFlight = 0
    /\ periodView = "none"
    /\ advice = ""
    /\ adviceStatus = "IDLE"
    /\ adviceRequests = <<>>

----------------------------------------------------------------------------
(* Steps *)

SearchState == <<aptName, isSearching, searchSources, searchMessage, searchInFlight>>

AdviceState == <<advice, adviceStatus, adviceRequests>>

(* useEffect(() => calculate(), [inputs]), App.tsx:32-35 *)
RecomputeEffect ==
    /\ effectPending
    /\ result' = calculate(inputs)
    /\ effectPending' = FALSE
    /\ UNCHANGED <<inputs, SearchState, AdviceState, currentYear, periodView>>

(* handleInputChange, App.tsx:37-54, called from a form control *)
handleInputChange(field, value) ==
    /\ ~effectPending
    /\ inputs' = InputChangeUpdater(inputs, field, value)
    /\ effectPending' = TRUE
    /\ periodView' = IF field = "durationMonths" THEN "duration" ELSE periodView
    /\ UNCHANGED <<result, SearchState, AdviceState, currentYear>>

(* handlePeriodRangeChange, App.tsx:56-84 *)
handlePeriodRangeChange(type, year) ==
    /\ ~effectPending
    /\ inputs' = PeriodRangeUpdater(inputs, type, year, currentYear)
    /\ effectPending' = TRUE
    /\ periodView' = "range"
    /\ UNCHANGED <<result, SearchState, AdviceState, currentYear>>

(* The form controls of App.tsx:224-410 and what each one calls.  A control *)
(* exists only in the render that shows it (App.tsx:250, App.tsx:300).     *)
SwitchMode ==
    \E m \in CalculationMode : handleInputChange("mode", m)

SwitchPeriodInputMode ==
    \E p \in PeriodInputMode : handleInputChange("periodInputMode", p)

EditTotalRepairCost(Values) ==
    /\ inputs.mode = "RATE"
    /\ \E v \in Values : handleInputChange("totalRepairCost", v)

EditAccumulationRate(Values) ==
    /\ inputs.mode = "RATE"
    /\ \E v \in Values : handleInputChange("accumulationRate", v)

EditPeriodAmount(Values) ==
    /\ inputs.mode # "RATE"
    /\ \E v \in Values : handleInputChange("periodAmount", v)

EditDurationMonths(Months) ==
    /\ inputs.periodInputMode = "DURATION"
    /\ \E m \in Months : handleInputChange("durationMonths", m)

EditStartYear(Years) ==
    /\ inputs.periodInputMode # "DURATION"
    /\ \E y \in Years : handlePeriodRangeChange("start", y)

EditEndYear(Years) ==
    /\ inputs.periodInputMode # "DURATION"
    /\ \E y \in Years : handlePeriodRangeChange("end", y)

EditTotalComplexArea(Values) ==
    \E v \in Values : handleInputChange("totalComplexArea", v)

EditHouseholdArea(Values) ==
    \E v \in Values : handleInputChange("householdArea", v)

(* onChange of the search field, App.tsx:365 *)
EditAptName ==
    /\ ~effectPending
    /\ \E s \in NameInputs : aptName' = s
    /\ UNCHANGED <<inputs, result, isSearching, searchSources, searchMessage,
                   effectPending, searchInFlight, currentYear, periodView,
                   AdviceState>>

(* aptName.trim() is the empty string, App.tsx:87 *)
TrimIsEmpty(s) == \A i \in 1..Len(s) : s[i] = " "

(* handleAptSearch up to its await, App.tsx:86-97 *)
handleAptSearch ==
    /\ ~effectPending
    /\ IF TrimIsEmpty(aptName)
       THEN /\ searchMessage' = "ENTER_NAME"
            /\ UNCHANGED <<isSearching, searchSources, searchInFlight>>
       ELSE /\ searchInFlight < MaxInFlight
            /\ isSearching' = TRUE
            /\ searchMessage' = ""
            /\ searchSources' = <<>>
            /\ searchInFlight' = searchInFlight + 1
    /\ UNCHANGED <<inputs, result, aptName, effectPending, currentYear, periodView,
                   AdviceState>>

(* the search button, App.tsx:370-376, disabled while isSearching *)
ClickSearch ==
    /\ ~isSearching
    /\ handleAptSearch

(* Enter in the search field, App.tsx:368 *)
EnterSearch ==
    handleAptSearch

(* What the model call of searchApartmentTotalArea can answer: the call    *)
(* throws, or the text does not parse, or it parses to two numbers (a      *)
(* missing field reads as 0).                                              *)
ApiAnswers ==
    [call : {"throws"}, totalComplexArea : {0}, householdArea : {0}, sources : {<<>>}]
    \cup [call : {"unparseable"}, totalComplexArea : {0}, householdArea : {0},
          sources : SourceLists]
    \cup [call : {"json"}, totalComplexArea : LookupAreas,
          householdArea : LookupAreas, sources : SourceLists]

(* searchApartmentTotalArea, geminiService.ts:77-148, on an answer *)
searchApartmentTotalArea(answer) ==
    IF answer.call = "throws"
    THEN [totalArea |-> 0, householdArea |-> 0, found |-> FALSE, sources |-> <<>>]
    ELSE IF answer.call = "unparseable"
    THEN [totalArea |-> 0, householdArea |-> 0, found |-> FALSE,
          sources |-> answer.sources]
    ELSE [totalArea |-> answer.totalComplexArea,
          householdArea |-> answer.householdArea,
          found |-> (answer.totalComplexArea > 0 \/ answer.householdArea > 0),
          sources |-> answer.sources]

(* The two conditional writes of App.tsx:103-112 as one updater: each is a  *)
(* handleInputChange, so a functional update of the inputs current when it *)
(* runs.  The mutants: one clears the areas when nothing was found, one    *)
(* writes the household area into the wrong field, one lets the second    *)
(* write start from the inputs the first write started from.              *)
LookupWritesClearing(prev, r) ==
    IF r.found
    THEN LET in1 == IF r.totalArea > 0
                    THEN InputChangeUpdater(prev, "totalComplexArea", r.totalArea)
                    ELSE prev
         IN IF r.householdArea > 0
            THEN InputChangeUpdater(in1, "householdArea", r.householdArea)
            ELSE in1
    ELSE [prev EXCEPT !.totalComplexArea = 0, !.householdArea = 0]

LookupWritesWrongField(prev, r) ==
    IF r.found
    THEN LET in1 == IF r.totalArea > 0
                    THEN InputChangeUpdater(prev, "totalComplexArea", r.totalArea)
                    ELSE prev
         IN IF r.householdArea > 0
            THEN InputChangeUpdater(in1, "periodAmount", r.householdArea)
            ELSE in1
    ELSE prev

LookupWritesSecondWins(prev, r) ==
    IF r.found
    THEN LET in1 == IF r.totalArea > 0
                    THEN InputChangeUpdater(prev, "totalComplexArea", r.totalArea)
                    ELSE prev
         IN IF r.householdArea > 0
            THEN InputChangeUpdater(prev, "householdArea", r.householdArea)
            ELSE in1
    ELSE prev

LookupWrites(prev, r) ==
    IF r.found
    THEN LET in1 == IF r.totalArea > 0
                    THEN InputChangeUpdater(prev, "totalComplexArea", r.totalArea)
                    ELSE prev
         IN IF r.householdArea > 0
            THEN InputChangeUpdater(in1, "householdArea", r.householdArea)
            ELSE in1
    ELSE prev

(* handleAptSearch after its await, App.tsx:97-132, on one answer *)
AptSearchAnswered(answer) ==
    /\ ~effectPending
    /\ searchInFlight > 0
    /\ LET r == searchApartmentTotalArea(answer)
           setTotal == r.found /\ r.totalArea > 0
           setHousehold == r.found /\ r.householdArea > 0
       IN /\ searchSources' = r.sources
          /\ inputs' = LookupWrites(inputs, r)
          /\ effectPending' = (setTotal \/ setHousehold)
          /\ searchMessage' = IF setTotal /\ setHousehold THEN "BOTH_FOUND"
                              ELSE IF setTotal THEN "TOTAL_ONLY"
                              ELSE IF setHousehold THEN "HOUSEHOLD_ONLY"
                              ELSE "NOT_FOUND"
    /\ isSearching' = FALSE
    /\ searchInFlight' = searchInFlight - 1
    /\ UNCHANGED <<result, aptName, currentYear, periodView, AdviceState>>

AptSearchResponse ==
    \E answer \in ApiAnswers : AptSearchAnswered(answer)

(* AdviceStatus, types.ts:28-33 *)
AdviceStatus == {"IDLE", "LOADING", "SUCCESS", "ERROR"}

(* !result is false, App.tsx:184 and ResultCard.tsx:16 *)
ResultPresentAlways(r) == TRUE

ResultPresent(r) == r.present

(* handleConsultAI up to its await, App.tsx:183-189: the call carries the  *)
(* inputs and the result of the render it was made in                      *)
handleConsultAI ==
    /\ ~effectPending
    /\ IF ~ResultPresent(result)
       THEN UNCHANGED AdviceState
       ELSE /\ Len(adviceRequests) < MaxInFlight
            /\ adviceStatus' = "LOADING"
            /\ advice' = ""
            /\ adviceRequests' = Append(adviceRequests,
                                        [inputs |-> inputs, result |-> result])
    /\ UNCHANGED <<inputs, result, SearchState, effectPending, currentYear,
                   periodView>>

(* the advice button, ResultCard.tsx:123-130: rendered when the card has a *)
(* result (ResultCard.tsx:16-22), disabled while isAiLoading (App.tsx:433) *)
ClickConsultAI ==
    /\ ResultPresent(result)
    /\ adviceStatus # "LOADING"
    /\ handleConsultAI

(* What the model call of getFinancialAdvice can answer: a text, an empty  *)
(* text, or the call throws (no API key included).                         *)
AdviceAnswers == {"text", "empty", "throws"}

(* getFinancialAdvice, geminiService.ts:12-75, on an answer.  The mutant    *)
(* returns from its catch instead of throwing.                             *)
getFinancialAdviceSwallows(answer) ==
    IF answer = "empty"
    THEN [threw |-> FALSE, text |-> "NO_ADVICE_GENERATED"]
    ELSE [threw |-> FALSE, text |-> "ADVICE_TEXT"]

getFinancialAdvice(answer) ==
    IF answer = "throws"
    THEN [threw |-> TRUE, text |-> ""]
    ELSE IF answer = "empty"
    THEN [threw |-> FALSE, text |-> "NO_ADVICE_GENERATED"]
    ELSE [threw |-> FALSE, text |-> "ADVICE_TEXT"]

(* handleConsultAI after its await, App.tsx:189-196, on one answer *)
AdviceAnswered(answer) ==
    /\ ~effectPending
    /\ adviceRequests # <<>>
    /\ LET r == getFinancialAdvice(answer)
       IN IF r.threw
          THEN /\ advice' = "ERROR_TRY_AGAIN"
               /\ adviceStatus' = "ERROR"
          ELSE /\ advice' = r.text
               /\ adviceStatus' = "SUCCESS"
    /\ adviceRequests' = Tail(adviceRequests)
    /\ UNCHANGED <<inputs, result, SearchState, effectPending, currentYear,
                   periodView>>

AdviceResponse ==
    \E answer \in AdviceAnswers : AdviceAnswered(answer)

(* the calendar year turns while the session is open *)
NewYear ==
    /\ ~effectPending
    /\ currentYear + 1 \in ClockYears
    /\ currentYear' = currentYear + 1
    /\ UNCHANGED <<inputs, result, SearchState, AdviceState, effectPending, periodView>>

(* A session: the form, the lookup, the clock *)
Next ==
    \/ RecomputeEffect
    \/ SwitchMode
    \/ SwitchPeriodInputMode
    \/ EditTotalRepairCost(FewValues)
    \/ EditAccumulationRate(RateInputs)
    \/ EditPeriodAmount(FewValues)
    \/ EditDurationMonths(FewMonths)
    \/ EditStartYear(FewYears)
    \/ EditEndYear(FewYears)
    \/ EditTotalComplexArea(FewValues)
    \/ EditHouseholdArea(FewValues)
    \/ EditAptName
    \/ ClickSearch
    \/ EnterSearch
    \/ AptSearchResponse
    \/ NewYear

Spec == Init /\ [][Next]_vars

(* A session that uses the form alone *)
NextForm ==
    \/ RecomputeEffect
    \/ SwitchMode
    \/ SwitchPeriodInputMode
    \/ EditTotalRepairCost(ValueInputs)
    \/ EditAccumulationRate(RateInputs)
    \/ EditPeriodAmount(ValueInputs)
    \/ EditDurationMonths(MonthInputs)
    \/ EditStartYear(YearInputs)
    \/ EditEndYear(YearInputs)
    \/ EditTotalComplexArea(ValueInputs)
    \/ EditHouseholdArea(ValueInputs)
    \/ NewYear

SpecForm == Init /\ [][NextForm]_vars

(* A session that edits the fields calculate() reads *)
NextCalc ==
    \/ RecomputeEffect
    \/ SwitchMode
    \/ EditTotalRepairCost(CalcAmounts)
    \/ EditAccumulationRate(CalcRates)
    \/ EditPeriodAmount(CalcAmounts)
    \/ EditDurationMonths(CalcMonths)
    \/ EditTotalComplexArea(CalcAreas)
    \/ EditHouseholdArea(CalcAreas)

SpecCalc == Init /\ [][NextCalc]_vars

(* A session that uses the two collaborators, with the fields that decide  *)
(* whether there is a result                                               *)
NextAsync ==
    \/ RecomputeEffect
    \/ SwitchMode
    \/ EditPeriodAmount(FewValues)
    \/ EditTotalComplexArea(FewValues)
    \/ EditHouseholdArea(FewValues)
    \/ EditAptName
    \/ ClickSearch
    \/ EnterSearch
    \/ AptSearchResponse
    \/ ClickConsultAI
    \/ AdviceResponse

SpecAsync == Init /\ [][NextAsync]_vars

----------------------------------------------------------------------------
(* C1: in every reachable state startYear <= endYear. *)
C1_StartNotAfterEnd ==
    inputs.startYear <= inputs.endYear

(* a start year typed past the end year has pulled the end year up *)
C1_Witness ==
    /\ periodView = "range"
    /\ inputs.startYear = MaxYear
    /\ inputs.endYear = MaxYear
    /\ inputs.durationMonths = 12

(* C2: after a range edit durationMonths = (endYear - startYear + 1) * 12  *)
(* on the resulting boundaries, and the equality stays as long as no       *)
(* duration edit and no further range edit happens (mode switches, cost    *)
(* and area edits and lookup responses keep it).                           *)
C2_RangeDurationExact ==
    periodView = "range" =>
        inputs.durationMonths = (inputs.endYear - inputs.startYear + 1) * 12

(* a six-year range, start 1 to end 6, with 72 months, still there after  *)
(* the mode was switched and a lookup has filled in both areas            *)
C2_Witness ==
    /\ periodView = "range"
    /\ inputs.startYear = 1
    /\ inputs.endYear = 6
    /\ inputs.durationMonths = 72
    /\ inputs.mode = "AMOUNT"
    /\ searchMessage = "BOTH_FOUND"

(* C3: a range edit of the start boundary to y sets startYear = y; if y   *)
(* is greater than the endYear held before the edit, endYear becomes y and *)
(* durationMonths becomes 12; otherwise endYear keeps its value.           *)
C3_StartEdit ==
    [][\A y \in YearInputs :
         handlePeriodRangeChange("start", y) =>
            /\ inputs'.startYear = y
            /\ IF y > inputs.endYear
               THEN inputs'.endYear = y /\ inputs'.durationMonths = 12
               ELSE inputs'.endYear = inputs.endYear]_vars

(* C4: a range edit of the end boundary to y sets endYear = y; if y is     *)
(* less than the startYear held before the edit, startYear becomes y and   *)
(* the period is 12 months; otherwise startYear keeps its value, also when *)
(* that value is 0.                                                        *)
C4_EndEdit ==
    [][\A y \in YearInputs :
         handlePeriodRangeChange("end", y) =>
            /\ inputs'.endYear = y
            /\ IF y < inputs.startYear
               THEN inputs'.startYear = y /\ inputs'.durationMonths = 12
               ELSE inputs'.startYear = inputs.startYear]_vars

(* m / 12 rounded half up: the r with r - 1/2 <= m / 12 < r + 1/2 *)
RoundedYears(m) == CHOOSE r \in 0..(m + 1) : 12 * r - 6 <= m /\ m < 12 * r + 6

(* C5: a duration edit to m months sets durationMonths = m, leaves         *)
(* startYear unchanged and, when startYear is not blank, sets endYear =    *)
(* startYear + max(1, r) - 1 where r is m / 12 rounded half up; no other   *)
(* input field changes (endYear neither, when startYear is blank).         *)
C5_DurationEdit ==
    [][\A m \in MonthInputs \cup CalcMonths :
         handleInputChange("durationMonths", m) =>
            /\ inputs'.durationMonths = m
            /\ inputs'.startYear = inputs.startYear
            /\ IF inputs.startYear # 0
               THEN inputs'.endYear =
                        inputs.startYear
                        + (IF RoundedYears(m) > 1 THEN RoundedYears(m) ELSE 1) - 1
               ELSE inputs'.endYear = inputs.endYear
            /\ \A f \in DOMAIN inputs \ {"durationMonths", "endYear"} :
                 inputs'[f] = inputs[f]]_vars

(* 18 months from start year 1: one and a half years round up to two, so   *)
(* the end year is 2, and the 18 is kept as typed                          *)
C5_Witness ==
    /\ periodView = "duration"
    /\ inputs.durationMonths = 18
    /\ inputs.startYear = 1
    /\ inputs.endYear = 2

(* the preconditions of a result, as section 4.2 of the specification lists them *)
Sufficient ==
    /\ inputs.durationMonths > 0
    /\ inputs.totalComplexArea > 0
    /\ inputs.householdArea > 0
    /\ inputs.mode = "RATE" => (inputs.totalRepairCost > 0 /\ inputs.accumulationRate > 0)
    /\ inputs.mode = "AMOUNT" => inputs.periodAmount > 0

(* C6: after recomputation the result is present if and only if           *)
(* durationMonths > 0, totalComplexArea > 0, householdArea > 0 and the     *)
(* fields of the active cost basis are > 0 (totalRepairCost and            *)
(* accumulationRate in RATE mode, periodAmount in AMOUNT mode); the fields *)
(* of the inactive cost basis do not matter.                               *)
C6_PresentIffSufficient ==
    ~effectPending => (result.present <=> Sufficient)

(* only householdArea is 0, every other field is positive, also those of   *)
(* the inactive cost basis: the result is absent                           *)
C6_Witness ==
    /\ ~effectPending
    /\ ~result.present
    /\ inputs.householdArea = 0
    /\ inputs.durationMonths > 0
    /\ inputs.totalComplexArea > 0
    /\ inputs.totalRepairCost > 0
    /\ inputs.accumulationRate > 0
    /\ inputs.periodAmount > 0

(* the inputs that state the same period target amount in the other cost basis *)
OtherBasis ==
    IF inputs.mode = "RATE"
    THEN {[inputs EXCEPT !.mode = "AMOUNT", !.periodAmount = a] :
            a \in {a \in CalcAmounts :
                     a * 100 = inputs.totalRepairCost * inputs.accumulationRate}}
    ELSE {[inputs EXCEPT !.mode = "RATE", !.totalRepairCost = c,
                         !.accumulationRate = r] :
            <<c, r>> \in {x \in CalcAmounts \X CalcRates :
                            x[1] * x[2] = 100 * inputs.periodAmount}}

(* C7: a present result satisfies periodTargetAmount = totalRepairCost *   *)
(* accumulationRate / 100 (RATE) or = periodAmount (AMOUNT),               *)
(* monthlyTotalTarget = periodTargetAmount / durationMonths,               *)
(* monthlyRatePerSqm = monthlyTotalTarget / totalComplexArea,              *)
(* householdMonthlyFee = monthlyRatePerSqm * householdArea, in exact       *)
(* arithmetic; and the inputs that differ only in using the other cost     *)
(* basis with the same period target amount derive the same result.        *)
C7_Formulas ==
    (~effectPending /\ result.present) =>
        LET pta == result.periodTargetAmount
            mtt == result.monthlyTotalTarget
            sqm == result.monthlyRatePerSqm
            fee == result.householdMonthlyFee
        IN /\ IF inputs.mode = "RATE"
              THEN pta[1] * 100 = inputs.totalRepairCost * inputs.accumulationRate * pta[2]
              ELSE pta[1] = inputs.periodAmount * pta[2]
           /\ mtt[1] * inputs.durationMonths * pta[2] = pta[1] * mtt[2]
           /\ sqm[1] * inputs.totalComplexArea * mtt[2] = mtt[1] * sqm[2]
           /\ fee[1] * sqm[2] = sqm[1] * inputs.householdArea * fee[2]
           /\ \A other \in OtherBasis : calculate(other) = result

(* RATE mode, 4 at 50 percent over 5 months, area 3, household 2: the      *)
(* target is 2, the fee 2/5 / 3 * 2 = 4/15, and periodAmount already holds *)
(* the 2 that gives the same result in AMOUNT mode                         *)
C7_Witness ==
    /\ ~effectPending
    /\ result.present
    /\ inputs.mode = "RATE"
    /\ inputs.totalRepairCost = 4
    /\ inputs.accumulationRate = 50
    /\ inputs.periodAmount = 2
    /\ inputs.durationMonths = 5
    /\ inputs.totalComplexArea = 3
    /\ inputs.householdArea = 2
    /\ result.householdMonthlyFee = <<4, 15>>

(* C8: in every committed render, result is the derivation of the current  *)
(* inputs.                                                                 *)
C8_NoStaleResult ==
    result = calculate(inputs)

(* the step changes no field of inputs but f *)
OnlyChanges(f) ==
    \A g \in DOMAIN inputs \ {f} : inputs'[g] = inputs[g]

(* C9: switching the cost-basis mode or the period-input mode changes only *)
(* that field, and an edit of periodAmount changes only periodAmount; so   *)
(* RATE -> AMOUNT -> RATE, with edits of periodAmount in between, gives    *)
(* back totalRepairCost and accumulationRate.                              *)
C9_ModeSwitchFrame ==
    [][/\ \A m \in CalculationMode :
            handleInputChange("mode", m) => (inputs'.mode = m /\ OnlyChanges("mode"))
       /\ \A p \in PeriodInputMode :
            handleInputChange("periodInputMode", p) =>
                (inputs'.periodInputMode = p /\ OnlyChanges("periodInputMode"))
       /\ \A v \in ValueInputs :
            handleInputChange("periodAmount", v) =>
                (inputs'.periodAmount = v /\ OnlyChanges("periodAmount"))]_vars

(* back in RATE mode with the cost and rate typed before, after a          *)
(* periodAmount was typed in AMOUNT mode                                   *)
C9_Witness ==
    /\ inputs.mode = "RATE"
    /\ inputs.periodInputMode = "RANGE"
    /\ inputs.totalRepairCost = MaxValue
    /\ inputs.accumulationRate = 50
    /\ inputs.periodAmount = MaxValue
    /\ inputs.durationMonths = 29

(* C10: when a period field (duration months, start year, end year) is     *)
(* left at 0, the recomputation yields an absent result.                   *)
C10_BlankPeriodRejected ==
    (/\ ~effectPending
     /\ \/ inputs.durationMonths = 0
        \/ inputs.startYear = 0
        \/ inputs.endYear = 0) => ~result.present

(* the lookup answered without a usable area: the call threw, its text did *)
(* not parse, or neither area in it is positive                            *)
FailedLookup(answer) ==
    \/ answer.call # "json"
    \/ (answer.totalComplexArea <= 0 /\ answer.householdArea <= 0)

(* C11: a failed collaborator call leaves inputs and result as they were:  *)
(* a failed lookup changes only searchMessage, searchSources, isSearching; *)
(* a failed advice request changes only advice and adviceStatus.           *)
C11_FailureLeavesCore ==
    [][/\ \A answer \in ApiAnswers :
            (FailedLookup(answer) /\ AptSearchAnswered(answer)) =>
                UNCHANGED <<inputs, result, effectPending, aptName, advice,
                            adviceStatus>>
       /\ AdviceAnswered("throws") =>
            UNCHANGED <<inputs, result, effectPending, aptName, isSearching,
                        searchSources, searchMessage>>]_vars

(* a lookup that found nothing and an advice request that failed, with the *)
(* areas and the result of before still there                             *)
C11_Witness ==
    /\ searchMessage = "NOT_FOUND"
    /\ adviceStatus = "ERROR"
    /\ inputs.totalComplexArea = MaxValue
    /\ inputs.householdArea = MaxValue
    /\ result.present

(* C12 as stated: no response of the advice generator or of the lookup     *)
(* service, successful or failed, changes inputs or result.                *)
C12_ResponsesNeverWrite ==
    [][(AptSearchResponse \/ AdviceResponse) => UNCHANGED <<inputs, result>>]_vars

(* the fields of inputs a lookup response may write, App.tsx:103-112 *)
LookupFields == {"totalComplexArea", "householdArea"}

(* C12, amended: no advice response changes inputs or result; a lookup     *)
(* response never changes result in its own step and changes no field of   *)
(* inputs but totalComplexArea and householdArea, and whenever it changes  *)
(* inputs it schedules the recomputation of result.                        *)
C12_OnlyLookupWritesAreas ==
    [][/\ AdviceResponse => UNCHANGED <<inputs, result, effectPending>>
       /\ AptSearchResponse =>
            /\ result' = result
            /\ \A f \in DOMAIN inputs \ LookupFields : inputs'[f] = inputs[f]
            /\ (inputs' # inputs) => effectPending']_vars

(* a lookup response has written both areas, the result has been derived   *)
(* from them and an advice response has been processed                     *)
C12_Witness ==
    /\ searchMessage = "BOTH_FOUND"
    /\ inputs.totalComplexArea = MaxValue
    /\ inputs.householdArea = MaxValue
    /\ ~effectPending
    /\ result.present
    /\ adviceStatus = "SUCCESS"

(* C13: for each collaborator at most one request is outstanding at any    *)
(* time.                                                                   *)
C13_OneOutstanding ==
    /\ searchInFlight <= 1
    /\ Len(adviceRequests) <= 1

(* the numeric fields of the form *)
NumericFields == DOMAIN inputs \ {"mode", "periodInputMode"}

(* C14: while a lookup is in flight, a value the user enters now into any  *)
(* field of inputs is still the value of that field after the response,    *)
(* whatever it answers, has been processed.                                *)
C14_NoLostEdit ==
    (searchInFlight > 0 /\ ~effectPending) =>
        \A f \in NumericFields : \A v \in FewValues :
            LET typed == InputChangeUpdater(inputs, f, v)
            IN \A answer \in ApiAnswers :
                 LookupWrites(typed, searchApartmentTotalArea(answer))[f] = typed[f]

(* max(1, m / 12 rounded half up) * 12 *)
RoundTripMonths(m) == (IF RoundedYears(m) > 1 THEN RoundedYears(m) ELSE 1) * 12

(* C15: after a duration edit to m with startYear set, a range edit that   *)
(* re-enters the same startYear, or the same endYear, gives durationMonths *)
(* = max(1, round(m / 12)) * 12, which is m only when m is a positive      *)
(* multiple of 12.                                                         *)
C15_RoundTrip ==
    [][(periodView = "duration" /\ inputs.startYear # 0) =>
         ((\/ handlePeriodRangeChange("start", inputs.startYear)
           \/ handlePeriodRangeChange("end", inputs.endYear)) =>
            /\ inputs'.durationMonths = RoundTripMonths(inputs.durationMonths)
            /\ inputs'.startYear = inputs.startYear
            /\ inputs'.endYear = inputs.endYear
            /\ (inputs'.durationMonths = inputs.durationMonths) <=>
                 (inputs.durationMonths > 0 /\ inputs.durationMonths % 12 = 0))]_vars

(* 65 months from start year 1 gave end year 5; re-entering start year 1   *)
(* then gave 60 months                                                     *)
C15_Witness ==
    /\ periodView = "range"
    /\ inputs.startYear = 1
    /\ inputs.endYear = 5
    /\ inputs.durationMonths = 60

(* C16: starting an advice request sets adviceStatus = LOADING and advice   *)
(* empty; the response sets SUCCESS with the returned text, or ERROR with  *)
(* the fixed error text when the call failed; adviceStatus is LOADING      *)
(* exactly while a request is awaited, changes in no other step and never  *)
(* returns to IDLE.                                                        *)
C16_AdviceLifecycle ==
    [][/\ ClickConsultAI =>
            /\ adviceStatus' = "LOADING"
            /\ advice' = ""
            /\ Len(adviceRequests') = 1
       /\ \A answer \in AdviceAnswers :
            AdviceAnswered(answer) =>
                /\ adviceStatus = "LOADING"
                /\ adviceRequests' = <<>>
                /\ adviceStatus' = IF answer = "throws" THEN "ERROR" ELSE "SUCCESS"
                /\ advice' = IF answer = "throws" THEN "ERROR_TRY_AGAIN"
                             ELSE IF answer = "empty" THEN "NO_ADVICE_GENERATED"
                             ELSE "ADVICE_TEXT"
       /\ (adviceStatus' # adviceStatus \/ advice' # advice) =>
            (ClickConsultAI \/ AdviceResponse)
       /\ (adviceStatus' = "LOADING") <=> (adviceRequests' # <<>>)
       /\ (adviceStatus' = "IDLE") => (adviceStatus = "IDLE")
       /\ adviceStatus' \in AdviceStatus]_vars

(* an advice request has been answered with a text *)
C16_Witness ==
    /\ adviceStatus = "SUCCESS"
    /\ advice = "ADVICE_TEXT"
    /\ adviceRequests = <<>>

(* C17: the inputs a range edit produces are a function of the previous    *)
(* inputs, the edited side and the entered year alone: the same edit of    *)
(* the same inputs gives the same inputs in any two calendar years.        *)
C17_ReconcilerPure ==
    \A now1 \in ClockYears : \A now2 \in ClockYears :
        \A type \in {"start", "end"} : \A year \in YearInputs :
            PeriodRangeUpdater(inputs, type, year, now1)
                = PeriodRangeUpdater(inputs, type, year, now2)

(* C18: processing a lookup response sets totalComplexArea to the returned *)
(* total area when something was found and that area is positive, sets     *)
(* householdArea likewise, and leaves every other field, and an area it    *)
(* does not set, as it is when the response arrives.                       *)
C18_LookupResponseWrites ==
    [][\A answer \in ApiAnswers :
         AptSearchAnswered(answer) =>
            LET found == /\ answer.call = "json"
                         /\ (answer.totalComplexArea > 0 \/ answer.householdArea > 0)
            IN /\ inputs'.totalComplexArea =
                    IF found /\ answer.totalComplexArea > 0
                    THEN answer.totalComplexArea
                    ELSE inputs.totalComplexArea
               /\ inputs'.householdArea =
                    IF found /\ answer.householdArea > 0
                    THEN answer.householdArea
                    ELSE inputs.householdArea
               /\ \A f \in DOMAIN inputs \ LookupFields : inputs'[f] = inputs[f]]_vars

(* the response that set both areas has just been processed, on inputs     *)
(* whose mode and periodAmount the user had edited                         *)
C18_Witness ==
    /\ searchMessage = "BOTH_FOUND"
    /\ effectPending
    /\ inputs.totalComplexArea = MaxValue
    /\ inputs.householdArea = MaxValue
    /\ inputs.mode = "AMOUNT"
    /\ inputs.periodAmount = MaxValue

(* C19: an advice request is only started while a result is present:       *)
(* whenever adviceStatus is LOADING a request is awaited, and every        *)
(* awaited request carries a present result.                               *)
C19_RequestHadResult ==
    /\ (adviceStatus = "LOADING") => (adviceRequests # <<>>)
    /\ \A i \in 1..Len(adviceRequests) : adviceRequests[i].result.present

(* a request started on a present result is still awaited after the user   *)
(* has emptied a field and the result has become absent                    *)
C19_Witness ==
    /\ adviceStatus = "LOADING"
    /\ Len(adviceRequests) = 1
    /\ adviceRequests[1].result.present
    /\ ~effectPending
    /\ ~result.present

====
